---- MODULE Spec2Model ----
(***************************************************************************)
(* A model of pymunk.autogeometry: the PolylineSet segment collector, the  *)
(* march_soft / march_hard contour tracers and the polyline simplifiers.   *)
(*                                                                         *)
(* The Python module is a thin layer over the native Chipmunk2D library    *)
(* (lib.cp...), whose C sources are not part of the files at hand.  The    *)
(* Python layer (argument marshalling, the cffi callback trampolines, the  *)
(* index guard of __getitem__, the doctest) is modelled from the source;   *)
(* the native functions are modelled from the written specification.       *)
(*                                                                         *)
(* Coordinates are integers.  Contour points are kept in doubled units     *)
(* (2x, 2y) so that the crossing point of a unit cell edge is an integer.  *)
(***************************************************************************)
EXTENDS Integers, Sequences, FiniteSets, TLC

VARIABLES
    \* ---- PolylineSet ----
    lines,       \* self._set: the polylines held, each a sequence of points
    ncalls,      \* number of collect_segment calls made so far
    prevCount,   \* len(set) before the last collect_segment call
    getKey,      \* key of the last indexed read
    getResult,   \* outcome of the last indexed read
    feed,        \* segments of a closed loop still to be fed
    loop,        \* the closed loop being fed (its distinct points)
    \* ---- march_soft / march_hard ----
    mpc,         \* "idle", "running" or "done"
    margs,       \* the arguments of the call
    pos,         \* grid points sampled so far
    buf,         \* the tracer's cache: the last x_samples + 2 values it received
    fld,         \* what sample_func did at those same points
    sampleLog,   \* the points sample_func was invoked with, in order
    emitCount,   \* invocations of segment_func so far
    lastEmits,   \* the segments emitted by the last step
    sampleRaised,\* sample_func invocations that raised
    segRaised,   \* segment_func invocations that raised
    outcome,     \* how the call ended: "none", "ok", "validation_error", "raised"
    \* ---- simplify_curves / simplify_vertexes ----
    polyline,    \* the polyline passed
    tolerance,   \* twice the tolerance passed
    simpFn,      \* the function called: "none", "curves" or "vertexes"
    simpOut      \* what it returned

setVars == <<lines, ncalls, prevCount, getKey, getResult, feed, loop>>

marchVars == <<mpc, margs, pos, buf, fld, sampleLog, emitCount, lastEmits,
              sampleRaised, segRaised, outcome>>

simpVars == <<polyline, tolerance, simpFn, simpOut>>

vars == <<setVars, marchVars, simpVars>>

(***************************************************************************)
(* Bounds of the model.                                                    *)
(***************************************************************************)
MaxCalls == 5        \* collect_segment calls per behaviour
MaxNegKey == 2       \* indexed reads use keys -MaxNegKey .. len+1
MaxLoop == 4         \* points of a closed loop fed to the set
MaxSamples == 3      \* x_samples, y_samples of a free trace are 1..MaxSamples
MaxRaises == 1       \* callbacks that raise during one trace
MaxPolyLen == 5      \* points of a polyline passed to a simplifier
MaxTol2 == 3         \* tolerances are 0, 1/2, ..., MaxTol2/2

\* The points segments are drawn from (compared by exact equality only).
Points == { <<0, 0>>, <<1, 0>>, <<1, 1>> }
\* The points polylines passed to the simplifiers are made of.
SimplifyPoints == { <<0, 0>>, <<1, 0>>, <<2, 0>>, <<1, 1>>, <<2, 2>> }
\* The points closed loops are made of.
LoopPoints == { <<0, 0>>, <<1, 0>>, <<1, 1>>, <<0, 1>>, <<2, 2>> }

Min(a, b) == IF a <= b THEN a ELSE b
Max(a, b) == IF a >= b THEN a ELSE b

Range(s) == { s[i] : i \in 1..Len(s) }
Reverse(s) == [i \in 1..Len(s) |-> s[Len(s) + 1 - i]]
RemoveAt(s, i) == SubSeq(s, 1, i - 1) \o SubSeq(s, i + 1, Len(s))
Head1(line) == line[1]
Tail1(line) == line[Len(line)]

(***************************************************************************)
(* PolylineSet.collect_segment, native part.                               *)
(* Each step of the written algorithm: the result is the set of sets the   *)
(* call may leave (which matching polyline is used, and how a merge is     *)
(* oriented, is not fixed by the description).                             *)
(***************************************************************************)
\* indexes of the polylines whose tail equals v
TailMatches(set, v) == { i \in 1..Len(set) : Tail1(set[i]) = v }
\* indexes of the polylines whose head equals v
HeadMatches(set, v) == { i \in 1..Len(set) : Head1(set[i]) = v }

\* step 1: append v1 to the tail of a polyline whose tail is v0
AppendToTail(set, i, v1) == [set EXCEPT ![i] = Append(set[i], v1)]
\* step 2: prepend v0 to the head of a polyline whose head is v1
PrependToHead(set, i, v0) == [set EXCEPT ![i] = <<v0>> \o set[i]]
\* step 3: v0 is the head of polyline x and v1 the tail of another polyline y
\* (steps 1 and 2 did not apply, so v0 is no tail and v1 is no head); the two
\* are joined through the segment, in either orientation.
MergeResults(set, x, y) ==
    { RemoveAt([set EXCEPT ![Min(x, y)] = m], Max(x, y)) :
        m \in { set[y] \o set[x], Reverse(set[x]) \o Reverse(set[y]) } }
MergePairs(set, v0, v1) ==
    { p \in HeadMatches(set, v0) \X TailMatches(set, v1) : p[1] # p[2] }
\* step 4: a new single-segment polyline
StartNew(set, v0, v1) == Append(set, <<v0, v1>>)

\* mutant: closing a loop only marks the polyline, no point is appended
CollectSegment_noClosingPoint(v0, v1, set) ==
    IF TailMatches(set, v0) # {}
    THEN { IF Head1(set[i]) = v1 THEN set ELSE AppendToTail(set, i, v1) :
             i \in TailMatches(set, v0) }
    ELSE IF HeadMatches(set, v1) # {}
    THEN { PrependToHead(set, i, v0) : i \in HeadMatches(set, v1) }
    ELSE IF MergePairs(set, v0, v1) # {}
    THEN UNION { MergeResults(set, p[1], p[2]) : p \in MergePairs(set, v0, v1) }
    ELSE { StartNew(set, v0, v1) }

\* mutant: step 2 is missing, a segment ending at a head starts a polyline
CollectSegment_noPrepend(v0, v1, set) ==
    IF TailMatches(set, v0) # {}
    THEN { AppendToTail(set, i, v1) : i \in TailMatches(set, v0) }
    ELSE IF MergePairs(set, v0, v1) # {}
    THEN UNION { MergeResults(set, p[1], p[2]) : p \in MergePairs(set, v0, v1) }
    ELSE { StartNew(set, v0, v1) }

cpPolylineSetCollectSegment(v0, v1, set) ==
    IF TailMatches(set, v0) # {}
    THEN { AppendToTail(set, i, v1) : i \in TailMatches(set, v0) }
    ELSE IF HeadMatches(set, v1) # {}
    THEN { PrependToHead(set, i, v0) : i \in HeadMatches(set, v1) }
    ELSE IF MergePairs(set, v0, v1) # {}
    THEN UNION { MergeResults(set, p[1], p[2]) : p \in MergePairs(set, v0, v1) }
    ELSE { StartNew(set, v0, v1) }

\* PolylineSet.collect_segment: the two arity assertions, then the native call
collect_segment(set, v0, v1) ==
    IF Len(v0) = 2 /\ Len(v1) = 2
    THEN cpPolylineSetCollectSegment(v0, v1, set)
    ELSE {}

\* PolylineSet.__len__
__len__(set) == Len(set)

(***************************************************************************)
(* PolylineSet.__getitem__: the outcomes of an indexed read.  The only     *)
(* guard is key >= count.  A negative key passes it and indexes the native *)
(* pointer self._set.lines, which cffi does not bounds-check: the read is  *)
(* out of the allocation, and yields a crash or whatever the memory holds. *)
(***************************************************************************)
GarbageLines == { <<>>, << <<7, 7>> >> }
__getitem__(set, key) ==
    IF key >= __len__(set)
    THEN { [kind |-> "IndexError", line |-> <<>>] }
    ELSE IF key >= 0
    THEN { [kind |-> "line", line |-> set[key + 1]] }
    ELSE { [kind |-> "crash", line |-> <<>>] }
         \cup { [kind |-> "line", line |-> g] : g \in GarbageLines }

NoArgs == [bb |-> <<0, 0, 0, 0>>, xs |-> 0, ys |-> 0, soft |-> TRUE,
           sampler |-> "none"]

NoRead == [kind |-> "none", line |-> <<>>]

MarchIdle ==
    /\ mpc = "idle"
    /\ margs = NoArgs
    /\ pos = 0
    /\ buf = <<>>
    /\ fld = <<>>
    /\ sampleLog = <<>>
    /\ emitCount = 0
    /\ lastEmits = <<>>
    /\ sampleRaised = 0
    /\ segRaised = 0
    /\ outcome = "none"

NoOutput == [kind |-> "none", pts |-> <<>>]

SimpIdle ==
    /\ polyline = <<>>
    /\ tolerance = 0
    /\ simpFn = "none"
    /\ simpOut = NoOutput

InitSet ==
    /\ SimpIdle
    /\ MarchIdle
    /\ lines = <<>>
    /\ ncalls = 0
    /\ prevCount = 0
    /\ getKey = 0
    /\ getResult = NoRead
    /\ feed = <<>>
    /\ loop = <<>>

\* one collect_segment(v0, v1) call with any two points
CollectSegment ==
    /\ ncalls < MaxCalls
    /\ \E v0 \in Points, v1 \in Points :
         \E s \in collect_segment(lines, v0, v1) : lines' = s
    /\ ncalls' = ncalls + 1
    /\ prevCount' = __len__(lines)
    /\ getResult' = NoRead
    /\ getKey' = 0
    /\ UNCHANGED <<feed, loop>>
    /\ UNCHANGED marchVars
    /\ UNCHANGED simpVars

\* one indexed read set[key]
GetItem ==
    /\ \E key \in (0 - MaxNegKey)..(__len__(lines) + 1) :
         /\ getKey' = key
         /\ getResult' \in __getitem__(lines, key)
    /\ UNCHANGED <<lines, ncalls, prevCount, feed, loop>>
    /\ UNCHANGED marchVars
    /\ UNCHANGED simpVars

NextSet == CollectSegment \/ GetItem

Spec == InitSet /\ [][NextSet]_vars

(***************************************************************************)
(* A closed loop's segments fed in some rotation of their order, or of the *)
(* reversed order.                                                         *)
(***************************************************************************)
\* the n directed segments (p1,p2), ..., (pn,p1) of a loop
LoopSegments(pts) ==
    [i \in 1..Len(pts) |-> <<pts[i], pts[(i % Len(pts)) + 1]>>]
Rotate(s, r) == [i \in 1..Len(s) |-> s[((i - 1 + r) % Len(s)) + 1]]
Injective(s) == \A i, j \in 1..Len(s) : s[i] = s[j] => i = j
Loops ==
    UNION { { s \in [1..n -> LoopPoints] : Injective(s) } : n \in 3..MaxLoop }

InitLoop ==
    /\ SimpIdle
    /\ MarchIdle
    /\ lines = <<>>
    /\ ncalls = 0
    /\ prevCount = 0
    /\ getKey = 0
    /\ getResult = NoRead
    /\ loop \in Loops
    /\ \E r \in 0..(MaxLoop - 1), rev \in BOOLEAN :
         feed = Rotate(IF rev THEN Reverse(LoopSegments(loop))
                              ELSE LoopSegments(loop), r)

FeedSegment ==
    /\ feed # <<>>
    /\ \E s \in collect_segment(lines, feed[1][1], feed[1][2]) : lines' = s
    /\ feed' = SubSeq(feed, 2, Len(feed))
    /\ ncalls' = ncalls + 1
    /\ prevCount' = __len__(lines)
    /\ UNCHANGED <<getKey, getResult, loop>>
    /\ UNCHANGED marchVars
    /\ UNCHANGED simpVars

NextLoop == FeedSegment

SpecLoop == InitLoop /\ [][NextLoop]_vars

(***************************************************************************)
(* march_soft / march_hard.                                                *)
(***************************************************************************)
\* twice the threshold of the documented example (.5)
Threshold2 == 1

\* the image of the module's example
img == << <<" ", " ", "x", "x", " ", " ", " ">>,
          <<" ", " ", "x", "x", " ", " ", " ">>,
          <<" ", " ", "x", "x", " ", " ", " ">>,
          <<" ", " ", "x", "x", " ", " ", " ">>,
          <<" ", " ", "x", "x", " ", " ", " ">>,
          <<" ", " ", "x", "x", "x", "x", "x">>,
          <<" ", " ", "x", "x", "x", "x", "x">> >>

\* int(v) of a non-negative coordinate kept in doubled units: truncation
int(v2) == v2 \div 2

\* what one invocation of a callback does: it returns a value or it raises
Returns(v) == [raises |-> FALSE, value |-> v]
Raises == [raises |-> TRUE, value |-> 0]

\* the example's sample_func (an index outside img raises IndexError)
sample_func(point) ==
    LET x == int(point[1])
        y == int(point[2])
    IN  IF (y + 1) \in DOMAIN img /\ (x + 1) \in DOMAIN img[y + 1]
        THEN Returns(IF img[y + 1][x + 1] = "x" THEN 1 ELSE 0)
        ELSE Raises

\* the arguments of the example's call:
\* march_soft(pymunk.BB(0,0,6,6), 7, 7, .5, segment_func, sample_func)
DoctestArgs == [bb |-> <<0, 0, 6, 6>>, xs |-> 7, ys |-> 7, soft |-> TRUE,
                sampler |-> "doctest"]

(***************************************************************************)
(* The cffi callback trampolines _sam_f and _seg_f.  An exception raised   *)
(* inside an ffi.callback function cannot cross the native frames: cffi    *)
(* prints it to stderr and hands the native caller the default result      *)
(* (0.0 for a float, nothing for void).  No error= or onerror= is given.   *)
(* "invocations" is how many times the Python callback was invoked.        *)
(***************************************************************************)
\* mutant: the trampoline calls sample_func again when it raised
_sam_f_retry(o) ==
    IF o.raises
    THEN [value |-> 0, invocations |-> 2, printed |-> 1]
    ELSE [value |-> o.value, invocations |-> 1, printed |-> 0]

\* mutant: the trampoline drops sample_func's result (no return statement)
_sam_f_noReturn(o) ==
    [value |-> 0, invocations |-> 1, printed |-> IF o.raises THEN 1 ELSE 0]

_sam_f(o) ==
    IF o.raises
    THEN [value |-> 0, invocations |-> 1, printed |-> 1]
    ELSE [value |-> o.value, invocations |-> 1, printed |-> 0]

_seg_f(o) ==
    IF o.raises
    THEN [invocations |-> 1, printed |-> 1]
    ELSE [invocations |-> 1, printed |-> 0]

(***************************************************************************)
(* The native tracer (cpMarchSoft / cpMarchHard).                          *)
(***************************************************************************)
\* mutant: the box is not checked
cpMarchValid_noBox(a) ==
    /\ a.xs >= 2
    /\ a.ys >= 2

\* the constraints checked before any processing
cpMarchValid(a) ==
    /\ a.xs >= 2
    /\ a.ys >= 2
    /\ a.bb[3] - a.bb[1] > 0
    /\ a.bb[4] - a.bb[2] > 0

\* grid point k (0-based, row-major) of the x_samples * y_samples grid that
\* spans the box, in doubled units
GridColumn(a, k) == k % a.xs
GridRow(a, k) == k \div a.xs
GridPoint(a, k) ==
    << 2 * a.bb[1] + (2 * (a.bb[3] - a.bb[1]) * GridColumn(a, k)) \div (a.xs - 1),
       2 * a.bb[2] + (2 * (a.bb[4] - a.bb[2]) * GridRow(a, k)) \div (a.ys - 1) >>

\* a corner is inside when its value exceeds the threshold
Inside(v) == 2 * v > Threshold2

\* where the contour crosses the edge from p0 (value v0) to p1 (value v1):
\* interpolated in soft mode, the midpoint in hard mode
Cross(p0, p1, v0, v1, soft) ==
    IF soft /\ v1 > v0
    THEN p0 + ((p1 - p0) * (Threshold2 - 2 * v0)) \div (2 * (v1 - v0))
    ELSE IF soft /\ v0 > v1
    THEN p0 + ((p1 - p0) * (2 * v0 - Threshold2)) \div (2 * (v0 - v1))
    ELSE p0 + (p1 - p0) \div 2

\* the marching-squares case of a cell: corners a (x0,y0), b (x1,y0),
\* c (x0,y1), d (x1,y1)
CellCase(va, vb, vc, vd) ==
    (IF Inside(va) THEN 1 ELSE 0) + (IF Inside(vb) THEN 2 ELSE 0)
    + (IF Inside(vc) THEN 4 ELSE 0) + (IF Inside(vd) THEN 8 ELSE 0)

\* the segments of a cell, the inside to the left of v0 -> v1.  B, R, T, L
\* are the crossings of the bottom, right, top and left edge.  The two saddle
\* cases (6 and 9) keep their two inside corners apart.
CellSegments(va, vb, vc, vd, x0, y0, x1, y1, soft) ==
    LET B == <<Cross(x0, x1, va, vb, soft), y0>>
        T == <<Cross(x0, x1, vc, vd, soft), y1>>
        L == <<x0, Cross(y0, y1, va, vc, soft)>>
        R == <<x1, Cross(y0, y1, vb, vd, soft)>>
        k == CellCase(va, vb, vc, vd)
    IN  CASE k = 1 -> << <<B, L>> >>
          [] k = 2 -> << <<R, B>> >>
          [] k = 3 -> << <<R, L>> >>
          [] k = 4 -> << <<L, T>> >>
          [] k = 5 -> << <<B, T>> >>
          [] k = 6 -> << <<R, B>>, <<L, T>> >>
          [] k = 7 -> << <<R, T>> >>
          [] k = 8 -> << <<T, R>> >>
          [] k = 9 -> << <<B, L>>, <<T, R>> >>
          [] k = 10 -> << <<T, B>> >>
          [] k = 11 -> << <<T, L>> >>
          [] k = 12 -> << <<L, R>> >>
          [] k = 13 -> << <<B, R>> >>
          [] k = 14 -> << <<L, B>> >>
          [] OTHER -> << >>

\* the cache after one more value: the last x_samples + 2 values (the rest
\* of the row below and the row being sampled)
Cache(c, v, a) ==
    LET n == Append(c, v)
    IN  IF Len(n) > a.xs + 2 THEN SubSeq(n, Len(n) - a.xs - 1, Len(n)) ELSE n

\* sampling grid point k completes the cell whose top right corner it is
CompletesCell(a, k) == GridColumn(a, k) >= 1 /\ GridRow(a, k) >= 1

\* the segments the tracer emits after it received the value of grid point k
\* (c is the cache with that value in it)
StepSegments(a, k, c) ==
    IF CompletesCell(a, k)
    THEN LET p0 == GridPoint(a, k - a.xs - 1)
             p1 == GridPoint(a, k)
         IN  CellSegments(c[1], c[2], c[a.xs + 1], c[a.xs + 2],
                          p0[1], p0[2], p1[1], p1[2], a.soft)
    ELSE << >>

\* march_soft / march_hard as the caller sees it end: the native call
\* returns, and the wrapper returns None or passes the native failure on
march_outcome(native) == native

SetIdle ==
    /\ lines = <<>>
    /\ ncalls = 0
    /\ prevCount = 0
    /\ getKey = 0
    /\ getResult = NoRead
    /\ feed = <<>>
    /\ loop = <<>>

InitMarch == SetIdle /\ MarchIdle /\ SimpIdle

\* the box of a free trace: unit cells, or no (or negative) extent
FreeBoxes(xs, ys) ==
    { <<0, 0, sx * (xs - 1), sy * (ys - 1)>> : sx \in {-1, 0, 1}, sy \in {-1, 0, 1} }
FreeArgs ==
    UNION { { [bb |-> b, xs |-> x, ys |-> y, soft |-> s, sampler |-> "free"] :
                s \in BOOLEAN, b \in FreeBoxes(x, y) } :
            x \in 1..MaxSamples, y \in 1..MaxSamples }

\* the call: the native tracer validates its arguments first
MarchCall ==
    /\ mpc = "idle"
    /\ \E a \in FreeArgs \cup {DoctestArgs} :
         /\ margs' = a
         /\ IF cpMarchValid(a)
            THEN mpc' = "running" /\ outcome' = "none"
            ELSE mpc' = "done" /\ outcome' = march_outcome("validation_error")
    /\ UNCHANGED <<pos, buf, fld, sampleLog, emitCount, lastEmits,
                   sampleRaised, segRaised>>
    /\ UNCHANGED setVars
    /\ UNCHANGED simpVars

\* what sample_func may do at a point
SampleOutcomes(a, point) ==
    IF a.sampler = "doctest"
    THEN { sample_func(point) }
    ELSE { Returns(0), Returns(1) }
         \cup (IF sampleRaised + segRaised < MaxRaises THEN { Raises } ELSE {})

\* which of n emitted segments make segment_func raise
SegmentRaisers(a, n) ==
    IF a.sampler = "doctest"
    THEN { {} }
    ELSE { R \in SUBSET (1..n) : sampleRaised + segRaised + Cardinality(R) <= MaxRaises }

\* the tracer samples the next grid point through _sam_f, caches the value
\* and emits the segments of the cell this completes through _seg_f
SampleStep ==
    /\ mpc = "running"
    /\ pos < margs.xs * margs.ys
    /\ \E o \in SampleOutcomes(margs, GridPoint(margs, pos)) :
         LET r == _sam_f(o)
             c == Cache(buf, r.value, margs)
             segs == StepSegments(margs, pos, c)
         IN  /\ buf' = c
             /\ fld' = Cache(fld, o, margs)
             /\ sampleLog' = sampleLog
                  \o [i \in 1..r.invocations |-> GridPoint(margs, pos)]
             /\ sampleRaised' = sampleRaised + r.printed
             /\ \E R \in SegmentRaisers(margs, Len(segs)) :
                  LET t == [i \in 1..Len(segs) |->
                              _seg_f(IF i \in R THEN Raises ELSE Returns(0))]
                      Sum[i \in 0..Len(segs)] ==
                          IF i = 0 THEN [inv |-> 0, pr |-> 0]
                          ELSE [inv |-> Sum[i - 1].inv + t[i].invocations,
                                pr |-> Sum[i - 1].pr + t[i].printed]
                  IN  /\ emitCount' = emitCount + Sum[Len(segs)].inv
                      /\ segRaised' = segRaised + Sum[Len(segs)].pr
             /\ lastEmits' = segs
    /\ pos' = pos + 1
    /\ UNCHANGED <<mpc, margs, outcome>>
    /\ UNCHANGED setVars
    /\ UNCHANGED simpVars

\* every grid point is sampled: the native call returns
MarchReturn ==
    /\ mpc = "running"
    /\ pos = margs.xs * margs.ys
    /\ mpc' = "done"
    /\ outcome' = march_outcome("ok")
    /\ UNCHANGED <<margs, pos, buf, fld, sampleLog, emitCount, lastEmits,
                   sampleRaised, segRaised>>
    /\ UNCHANGED setVars
    /\ UNCHANGED simpVars

NextMarch == MarchCall \/ SampleStep \/ MarchReturn

SpecMarch == InitMarch /\ [][NextMarch]_vars

(***************************************************************************)
(* simplify_curves / simplify_vertexes.                                    *)
(***************************************************************************)
DistSq(a, b) == (a[1] - b[1]) * (a[1] - b[1]) + (a[2] - b[2]) * (a[2] - b[2])
CrossProduct(a, b, p) ==
    (b[1] - a[1]) * (p[2] - a[2]) - (b[2] - a[2]) * (p[1] - a[1])
\* the deviation of p from the chord a-b, for comparing points over one chord
Deviation(a, b, p) ==
    IF a = b THEN DistSq(a, p) ELSE CrossProduct(a, b, p) * CrossProduct(a, b, p)
\* the distance of p from the chord a-b is at most tol2 / 2
WithinTolerance(a, b, p, tol2) ==
    IF a = b
    THEN 4 * DistSq(a, p) <= tol2 * tol2
    ELSE 4 * CrossProduct(a, b, p) * CrossProduct(a, b, p) <= tol2 * tol2 * DistSq(a, b)
\* the distance of p from the chord a-b is below tol2 / 2
BelowTolerance(a, b, p, tol2) ==
    IF a = b
    THEN 4 * DistSq(a, p) < tol2 * tol2
    ELSE 4 * CrossProduct(a, b, p) * CrossProduct(a, b, p) < tol2 * tol2 * DistSq(a, b)

MinOf(S) == CHOOSE x \in S : \A y \in S : x <= y
IsClosedLine(verts) == Len(verts) >= 1 /\ verts[1] = verts[Len(verts)]
\* fewer than 2 distinct points: the call fails
TooFewPoints(verts) == Cardinality(Range(verts)) < 2

\* Douglas-Peucker on an open chain: the first point of greatest deviation
\* from the chord; within tolerance the span collapses to its two ends,
\* otherwise the chain is split there and the shared point kept once
RECURSIVE DouglasPeucker(_, _)
DouglasPeucker(chain, tol2) ==
    IF Len(chain) <= 2
    THEN chain
    ELSE LET a == chain[1]
             b == chain[Len(chain)]
             inner == 2..(Len(chain) - 1)
             far == MinOf({ i \in inner : \A j \in inner :
                              Deviation(a, b, chain[j]) <= Deviation(a, b, chain[i]) })
         IN  IF WithinTolerance(a, b, chain[far], tol2)
             THEN <<a, b>>
             ELSE DouglasPeucker(SubSeq(chain, 1, far), tol2)
                  \o Tail(DouglasPeucker(SubSeq(chain, far, Len(chain)), tol2))

\* the anchors of a closed loop u (its points without the repeated one): a
\* farthest pair
LoopAnchors(u) ==
    { p \in (1..Len(u)) \X (1..Len(u)) :
        /\ p[1] < p[2]
        /\ \A q \in (1..Len(u)) \X (1..Len(u)) :
             DistSq(u[q[1]], u[q[2]]) <= DistSq(u[p[1]], u[p[2]]) }

\* a closed loop: the two chains between the anchors are simplified and put
\* together again into a closed loop
CurvesOfLoop(u, s, e, tol2) ==
    DouglasPeucker(SubSeq(u, s, e), tol2)
    \o Tail(DouglasPeucker(SubSeq(u, e, Len(u)) \o SubSeq(u, 1, s), tol2))

\* the outcomes of the native curve simplification
cpPolylineSimplifyCurves(line, tol2) ==
    IF TooFewPoints(line.verts)
    THEN { [kind |-> "ValidationError", count |-> 0, verts |-> <<>>] }
    ELSE IF IsClosedLine(line.verts)
    THEN LET u == SubSeq(line.verts, 1, line.count - 1)
         IN  { [kind |-> "line",
                count |-> Len(CurvesOfLoop(u, p[1], p[2], tol2)),
                verts |-> CurvesOfLoop(u, p[1], p[2], tol2)] : p \in LoopAnchors(u) }
    ELSE { [kind |-> "line",
            count |-> Len(DouglasPeucker(line.verts, tol2)),
            verts |-> DouglasPeucker(line.verts, tol2)] }

\* vertex decimation of an open polyline: the first inner vertex whose
\* deviation from the chord of its neighbours is below the tolerance is
\* removed, until none qualifies or 2 points are left
RECURSIVE DecimateOpen(_, _)
DecimateOpen(v, tol2) ==
    LET flat == { i \in 2..(Len(v) - 1) : BelowTolerance(v[i - 1], v[i + 1], v[i], tol2) }
    IN  IF Len(v) <= 2 \/ flat = {}
        THEN v
        ELSE DecimateOpen(RemoveAt(v, MinOf(flat)), tol2)

\* vertex decimation of a closed loop u (its points without the repeated
\* one), every vertex having two neighbours, until 3 points are left
RECURSIVE DecimateLoop(_, _)
DecimateLoop(u, tol2) ==
    LET m == Len(u)
        flat == { i \in 1..m :
                    BelowTolerance(u[((i + m - 2) % m) + 1], u[(i % m) + 1], u[i], tol2) }
    IN  IF m <= 3 \/ flat = {}
        THEN u
        ELSE DecimateLoop(RemoveAt(u, MinOf(flat)), tol2)

\* the outcomes of the native vertex decimation
cpPolylineSimplifyVertexes(line, tol2) ==
    IF TooFewPoints(line.verts)
    THEN { [kind |-> "ValidationError", count |-> 0, verts |-> <<>>] }
    ELSE IF IsClosedLine(line.verts)
    THEN LET u == DecimateLoop(SubSeq(line.verts, 1, line.count - 1), tol2)
         IN  { [kind |-> "line", count |-> Len(u) + 1, verts |-> Append(u, u[1])] }
    ELSE { [kind |-> "line",
            count |-> Len(DecimateOpen(line.verts, tol2)),
            verts |-> DecimateOpen(line.verts, tol2)] }

\* _to_chipmunk: a cpPolyline of len(polyline) vertexes
_to_chipmunk(pl) == [count |-> Len(pl), capacity |-> Len(pl), verts |-> pl]

Vec2d(x, y) == <<x, y>>

\* mutant: the copy loop stops one vertex short
copy_line_short(l) ==
    IF l.kind = "line"
    THEN [kind |-> "points",
          pts |-> [i \in 1..(l.count - 1) |-> Vec2d(l.verts[i][1], l.verts[i][2])]]
    ELSE [kind |-> l.kind, pts |-> <<>>]

\* the loop of simplify_curves and simplify_vertexes that copies the
\* _line.count vertexes of the native result into a list of Vec2d
copy_line(l) ==
    IF l.kind = "line"
    THEN [kind |-> "points",
          pts |-> [i \in 1..l.count |-> Vec2d(l.verts[i][1], l.verts[i][2])]]
    ELSE [kind |-> l.kind, pts |-> <<>>]

simplify_curves(pl, tol2) ==
    { copy_line(l) : l \in cpPolylineSimplifyCurves(_to_chipmunk(pl), tol2) }

simplify_vertexes(pl, tol2) ==
    { copy_line(l) : l \in cpPolylineSimplifyVertexes(_to_chipmunk(pl), tol2) }

Polylines ==
    UNION { [1..n -> SimplifyPoints] : n \in 1..MaxPolyLen }

InitSimplify ==
    /\ SetIdle
    /\ MarchIdle
    /\ polyline \in Polylines
    /\ tolerance \in 0..MaxTol2
    /\ simpFn = "none"
    /\ simpOut = NoOutput

SimplifyCurves ==
    /\ simpFn = "none"
    /\ simpFn' = "curves"
    /\ simpOut' \in simplify_curves(polyline, tolerance)
    /\ UNCHANGED <<polyline, tolerance>>
    /\ UNCHANGED <<setVars, marchVars>>

SimplifyVertexes ==
    /\ simpFn = "none"
    /\ simpFn' = "vertexes"
    /\ simpOut' \in simplify_vertexes(polyline, tolerance)
    /\ UNCHANGED <<polyline, tolerance>>
    /\ UNCHANGED <<setVars, marchVars>>

NextSimplify == SimplifyCurves \/ SimplifyVertexes

SpecSimplify == InitSimplify /\ [][NextSimplify]_vars

(***************************************************************************)
(* Properties of the PolylineSet.                                          *)
(***************************************************************************)
SegmentsHeld(set) ==
    LET Sum[i \in 0..Len(set)] ==
            IF i = 0 THEN 0 ELSE Sum[i - 1] + (Len(set[i]) - 1)
    IN  Sum[Len(set)]

\* C1: after any sequence of collect_segment calls on an empty set, no two
\* distinct polylines A and B are held such that the last point of A equals
\* the first point of B.
C1_NoSharedEndpoint ==
    \A i, j \in 1..Len(lines) :
        i # j => Tail1(lines[i]) # Head1(lines[j])

\* C2: the segments of a closed loop of n >= 3 distinct points, fed in any
\* rotation of their order or of the reversed order, end as exactly one
\* polyline, which is closed and has the loop's point set.
C2_LoopAssembled ==
    (loop # <<>> /\ feed = <<>>) =>
        /\ __len__(lines) = 1
        /\ Head1(lines[1]) = Tail1(lines[1])
        /\ Range(lines[1]) = Range(loop)

\* C2 witness: a whole loop of MaxLoop points has been fed
C2_Witness ==
    /\ feed = <<>>
    /\ Len(loop) >= 4
    /\ ncalls = Len(loop)
    /\ __len__(lines) = 1
    /\ Len(lines[1]) = Len(loop) + 1

\* C3: an indexed read with a key outside 0 <= key < count (every negative
\* key and key = count included) fails with a bounds error; a read with a key
\* inside the range returns the points of that polyline.
C3_IndexedReadBounds ==
    getResult.kind # "none" =>
        IF getKey >= 0 /\ getKey < __len__(lines)
        THEN getResult = [kind |-> "line", line |-> lines[getKey + 1]]
        ELSE getResult.kind = "IndexError"

\* C10: after k collect_segment calls the polylines held have k segments in
\* all (the sum of point count - 1), each has at least 2 points, and the last
\* call changed the count by +1, 0 or -1.
C10_SegmentConservation ==
    /\ SegmentsHeld(lines) = ncalls
    /\ \A i \in 1..Len(lines) : Len(lines[i]) >= 2
    /\ (__len__(lines) - prevCount) \in {-1, 0, 1}

\* C10 witness: the last call merged two polylines into one
C10_Witness ==
    /\ ncalls = 3
    /\ prevCount = 2
    /\ __len__(lines) = 1
    /\ Len(lines[1]) = 4

(***************************************************************************)
(* Properties of the tracers.                                              *)
(***************************************************************************)
BoxWidth(a) == a.bb[3] - a.bb[1]
BoxHeight(a) == a.bb[4] - a.bb[2]

\* C4: a trace with x_samples >= 2 and y_samples >= 2 invokes sample_func in
\* row-major order, never twice for the same point, and when it has run to
\* completion it has sampled each of the x_samples * y_samples grid points
\* exactly once.
C4_RowMajorOnce ==
    (mpc # "idle" /\ margs.xs >= 2 /\ margs.ys >= 2) =>
        /\ \A k, l \in 1..Len(sampleLog) :
             k < l => \/ sampleLog[k][2] < sampleLog[l][2]
                      \/ /\ sampleLog[k][2] = sampleLog[l][2]
                         /\ sampleLog[k][1] < sampleLog[l][1]
        /\ (mpc = "done" /\ outcome = "ok") =>
             /\ Len(sampleLog) = margs.xs * margs.ys
             /\ Range(sampleLog) =
                  { << 2 * margs.bb[1] + (2 * BoxWidth(margs) * i) \div (margs.xs - 1),
                       2 * margs.bb[2] + (2 * BoxHeight(margs) * j) \div (margs.ys - 1) >> :
                      i \in 0..(margs.xs - 1), j \in 0..(margs.ys - 1) }

\* C4 witness: a free trace over a grid of at least 3 x 3 ran to completion,
\* one of its sample_func invocations having raised
C4_Witness ==
    /\ mpc = "done"
    /\ outcome = "ok"
    /\ margs.sampler = "free"
    /\ margs.xs >= 3
    /\ margs.ys >= 3
    /\ sampleRaised >= 1
    /\ Len(sampleLog) = margs.xs * margs.ys

\* C5: when sample_func or segment_func raised during a trace, the call ends
\* with that error reaching the caller (it does not return normally).
C5_CallbackErrorPropagates ==
    (mpc = "done" /\ sampleRaised + segRaised > 0) => outcome = "raised"

\* C6: when the call ends in an error (a validation failure, or sample_func
\* having raised at any grid point), segment_func was invoked zero times.
C6_AllOrNothing ==
    (mpc = "done" /\ (outcome # "ok" \/ sampleRaised > 0)) => emitCount = 0

C8_SegmentsPerCell ==
    /\ (/\ mpc # "idle"
        /\ outcome # "validation_error"
        /\ pos >= 1
        /\ (pos - 1) % margs.xs >= 1
        /\ (pos - 1) \div margs.xs >= 1
        /\ \A i \in {1, 2, margs.xs + 1, margs.xs + 2} : ~fld[i].raises) =>
          LET a == 2 * fld[1].value > Threshold2
              b == 2 * fld[2].value > Threshold2
              c == 2 * fld[margs.xs + 1].value > Threshold2
              d == 2 * fld[margs.xs + 2].value > Threshold2
              agree == (a = b) /\ (b = c) /\ (c = d)
              saddle == (a = d) /\ (b = c) /\ (a # b)
          IN  /\ agree => Len(lastEmits) = 0
              /\ (~agree /\ ~saddle) => Len(lastEmits) = 1
    /\ (mpc = "done" /\ margs.sampler = "doctest") => emitCount = 13

\* C8 witness: the documented example has run to completion
C8_Witness ==
    /\ mpc = "done"
    /\ margs.sampler = "doctest"
    /\ outcome = "ok"
    /\ pos = 49
    /\ emitCount = 13

(***************************************************************************)
(* Properties of the simplifiers.                                          *)
(***************************************************************************)
RECURSIVE IsSubsequence(_, _)
IsSubsequence(a, b) ==
    IF a = <<>> THEN TRUE
    ELSE IF b = <<>> THEN FALSE
    ELSE IF a[1] = b[1] THEN IsSubsequence(Tail(a), Tail(b))
    ELSE IsSubsequence(a, Tail(b))

====
